---- MODULE Spec2Model ----
(***************************************************************************)
(* Model of the Hokie Event Sphere services:                                *)
(*   - the recommendation service (src/test-recomm.py): feature space,      *)
(*     create_user_vector, create_event_vector, recommend_events;           *)
(*   - the ingestion path of the categorizer service (src/main_new-1.py):   *)
(*     process_ticketmaster_event, is_duplicate_event,                      *)
(*     categorize_ticketmaster_event.                                       *)
(*                                                                          *)
(* Python dicts are functions whose DOMAIN is the set of keys present, so   *)
(* dict.get(key, default) and a KeyError are both expressible.  A Python    *)
(* value that may be None is wrapped: None is <<>> and a value v is <<v>>.  *)
(***************************************************************************)
EXTENDS Integers, Sequences, FiniteSets, TLC

----------------------------------------------------------------------------
(* Bounds of the model *)

\* largest click count recorded for one subcategory
MaxCount == 2
\* largest number of documents in the events collection
MaxEvents == 2
\* largest top_n a request carries
MaxTopN == 3
\* number of categorize_ticketmaster_event requests served concurrently
MaxRequests == 2
\* longest interest / click / rsvp list in the encoder harness
MaxList == 2
\* number of failed date parses (datetime.now() readings) the model follows
MaxClock == 1

----------------------------------------------------------------------------
(* Python helpers *)

\* dict.get(key, default)
Get(d, key, default) == IF key \in DOMAIN d THEN d[key] ELSE default

None == <<>>

Some(v) == <<v>>

\* truthiness of an optional string: None and "" are falsy
Truthy(v) == v # None /\ v # Some("")

\* x in list
In(x, list) == \E i \in 1..Len(list) : list[i] = x

\* list.index(x) for x in list: the first position holding x
index(list, x) == CHOOSE i \in 1..Len(list) :
                     list[i] = x /\ \A j \in 1..(i - 1) : list[j] # x

\* np.zeros(n)
zeros(n) == [i \in 1..n |-> 0]

----------------------------------------------------------------------------
(* Feature space, src/test-recomm.py lines 27-42 *)

categories ==
  << "Technology", "Sports", "Music", "Art", "Travel", "Gaming", "Fitness",
     "Social Events", "Others" >>

subcategories ==
  << "Software & Web Development", "Data Science & Machine Learning",
     "Cybersecurity & Privacy", "Tech Innovation & Startups",
     "Team Sports", "Outdoor & Adventure Sports", "Individual Sports",
     "Live Performances & Concerts", "Music Festivals",
     "Performing Arts", "Art Exhibitions & Workshops",
     "Adventure Travel & Expeditions", "Cultural & Heritage Tours",
     "Weekend Getaways & Road Trips",
     "eSports & Competitive Gaming", "Board Games & Tabletop Meetups",
     "Virtual Reality & Tech Gaming",
     "Yoga & Mindfulness", "Outdoor Fitness",
     "Networking & Professional Meetups",
     "Community Volunteering & Social Causes", "Social Gatherings & Parties",
     "Book Clubs & Interest-Based Groups",
     "Sub-Others" >>

feature_space == categories \o subcategories

\* number of feature dimensions, len(feature_space)
Dim == Len(feature_space)

----------------------------------------------------------------------------
(* create_user_vector, src/test-recomm.py lines 86-114 *)

\* faulty variant: an interest is counted (+= 1) instead of assigned
EncodeInterest_accumulate(vector, interest) ==
  IF In(interest, feature_space)
    THEN [vector EXCEPT ![index(feature_space, interest)] = @ + 1]
    ELSE vector

\* body of the interests loop, lines 92-93
EncodeInterest(vector, interest) ==
  IF In(interest, feature_space)
    THEN [vector EXCEPT ![index(feature_space, interest)] = 1]
    ELSE vector

\* faulty variant: the click count overwrites the dimension instead of adding to it
EncodeClick_assign(vector, subcategory_info) ==
  LET subcategory == Get(subcategory_info, "category", "")
      count       == Get(subcategory_info, "categoryCount", 0)
  IN  IF In(subcategory, feature_space)
        THEN [vector EXCEPT ![index(feature_space, subcategory)] = count]
        ELSE vector

\* body of the click-count loop, lines 97-100
EncodeClick(vector, subcategory_info) ==
  LET subcategory == Get(subcategory_info, "category", "")
      count       == Get(subcategory_info, "categoryCount", 0)
  IN  IF In(subcategory, feature_space)
        THEN [vector EXCEPT ![index(feature_space, subcategory)] = @ + count]
        ELSE vector

\* faulty variant: an RSVP weighs as much as one click
EncodeRsvp_weight1(vector, rsvp_event) ==
  LET main_category == Get(rsvp_event, "main_category", "")
      sub_category  == Get(rsvp_event, "sub_category", "")
      v1 == IF In(main_category, feature_space)
              THEN [vector EXCEPT ![index(feature_space, main_category)] = @ + 1]
              ELSE vector
  IN  IF In(sub_category, feature_space)
        THEN [v1 EXCEPT ![index(feature_space, sub_category)] = @ + 1]
        ELSE v1

\* body of the RSVP loop, lines 104-109
EncodeRsvp(vector, rsvp_event) ==
  LET main_category == Get(rsvp_event, "main_category", "")
      sub_category  == Get(rsvp_event, "sub_category", "")
      v1 == IF In(main_category, feature_space)
              THEN [vector EXCEPT ![index(feature_space, main_category)] = @ + 2]
              ELSE vector
  IN  IF In(sub_category, feature_space)
        THEN [v1 EXCEPT ![index(feature_space, sub_category)] = @ + 2]
        ELSE v1

RECURSIVE EncodeInterests(_, _, _)
\* for interest in user_interests, from position i on
EncodeInterests(vector, user_interests, i) ==
  IF i > Len(user_interests) THEN vector
  ELSE EncodeInterests(EncodeInterest(vector, user_interests[i]),
                       user_interests, i + 1)

RECURSIVE EncodeClicks(_, _, _)
\* for subcategory_info in click_counts.get("subCategories", []), from i on
EncodeClicks(vector, infos, i) ==
  IF i > Len(infos) THEN vector
  ELSE EncodeClicks(EncodeClick(vector, infos[i]), infos, i + 1)

RECURSIVE EncodeRsvps(_, _, _)
\* for rsvp_event in rsvp_counts, from position i on
EncodeRsvps(vector, rsvp_counts, i) ==
  IF i > Len(rsvp_counts) THEN vector
  ELSE EncodeRsvps(EncodeRsvp(vector, rsvp_counts[i]), rsvp_counts, i + 1)

\* faulty variant: the two placeholder location dimensions are not appended
UserLocation_missing(vector) == vector

\* np.append(vector, [0, 0]), line 112
UserLocation(vector) == vector \o <<0, 0>>

create_user_vector(user_profile, click_counts, rsvp_counts) ==
  LET v0 == zeros(Dim)
      v1 == EncodeInterests(v0, Get(user_profile, "interests", <<>>), 1)
      v2 == EncodeClicks(v1, Get(click_counts, "subCategories", <<>>), 1)
      v3 == EncodeRsvps(v2, rsvp_counts, 1)
  IN  UserLocation(v3)

----------------------------------------------------------------------------
(* create_event_vector, src/test-recomm.py lines 116-134 *)

\* the one-hot category flags, lines 117-127
EventCategories(event) ==
  LET main_category == Get(event, "main_category", "")
      sub_category  == Get(event, "sub_category", "")
      v0 == zeros(Dim)
      v1 == IF In(main_category, feature_space)
              THEN [v0 EXCEPT ![index(feature_space, main_category)] = 1]
              ELSE v0
  IN  IF In(sub_category, feature_space)
        THEN [v1 EXCEPT ![index(feature_space, sub_category)] = 1]
        ELSE v1

\* the location read by lines 130-131: keys "Latitude" and "Longitude"
EventLocation(event) ==
  << Get(event, "Latitude", 0), Get(event, "Longitude", 0) >>

create_event_vector(event) == EventCategories(event) \o EventLocation(event)

----------------------------------------------------------------------------
(* AnnoyIndex(len(feature_space) + 2, 'angular'), the annoy library as      *)
(* recommend_events uses it, src/test-recomm.py lines 65-76.  The angular   *)
(* distance of annoy is sqrt(2 - 2 cos(u, v)), and sqrt(2) when either      *)
(* vector has norm 0.  A distance is kept exactly, as the pair              *)
(* [num, den] with cos^2 = num / den; no vector of the model has a          *)
(* negative component, so cos >= 0 and the order of distances is the        *)
(* reverse of the order of cos^2.                                           *)

RECURSIVE dot(_, _, _)
\* the dot product of u and v from position i on
dot(u, v, i) ==
  IF i > Len(u) THEN 0 ELSE u[i] * v[i] + dot(u, v, i + 1)

\* annoy's Angular::distance(x, y)
angular_distance(u, v) ==
  LET pp == dot(u, u, 1)
      qq == dot(v, v, 1)
      pq == dot(u, v, 1)
  IN  IF pp * qq > 0 THEN [num |-> pq * pq, den |-> pp * qq]
                     ELSE [num |-> 0, den |-> 1]

\* d1 <= d2 as distances: cos^2 of d1 is at least cos^2 of d2
DistLeq(d1, d2) == d1.num * d2.den >= d2.num * d1.den

\* lines 67-70: enumerate(events) and annoy_index.add_item(idx, event_vector);
\* the index maps the 0-based position of an event to its vector
BuildIndex(events_list) ==
  [idx \in 0..(Len(events_list) - 1) |->
      create_event_vector(events_list[idx + 1])]

\* the smaller of two numbers
Min(a, b) == IF a <= b THEN a ELSE b

\* annoy_index.get_nns_by_vector(user_vector, top_n, include_distances=True):
\* the possible results.  The search is approximate, so any min(n, #items)
\* distinct items may come back; they come back by non-decreasing distance.
get_nns_by_vector(annoy_index, vector, n) ==
  LET ids == DOMAIN annoy_index
      k   == Min(n, Cardinality(ids))
  IN  { r \in [1..k -> ids] :
          /\ \A i, j \in 1..k : i # j => r[i] # r[j]
          /\ \A i \in 1..(k - 1) :
                DistLeq(angular_distance(vector, annoy_index[r[i]]),
                        angular_distance(vector, annoy_index[r[i + 1]])) }

\* faulty variant: the result position is taken for the event position
Recommendation_shifted(events_list, similar, vector, annoy_index, i) ==
  [event    |-> events_list[i]["title"],
   distance |-> angular_distance(vector, annoy_index[similar[i]])]

\* lines 77-80: one entry of the list comprehension, for the i-th result
Recommendation(events_list, similar, vector, annoy_index, i) ==
  [event    |-> events_list[similar[i] + 1]["title"],
   distance |-> angular_distance(vector, annoy_index[similar[i]])]

----------------------------------------------------------------------------
(* State *)

VARIABLES
  userprofiles,   \* db.userprofiles: sequence of documents
  clickcounts,    \* db.clickcounts: sequence of documents
  events,         \* db.events: sequence of documents, in insertion order
  clock,          \* number of datetime.now() readings taken as a start date
  pc,             \* position of the recommend_events request
  request,        \* its arguments [user_id, top_n]
  user_profile,   \* local of recommend_events
  click_counts,   \* local of recommend_events
  rsvp_counts,    \* local of recommend_events
  user_vector,    \* local of recommend_events
  fetched,        \* local `events` of recommend_events (line 62)
  similar,        \* ids returned by the index (similar_events_idx[0])
  response,       \* what the caller of recommend_events receives
  raised,         \* the exception raised inside the try block, "" if none
  last_ingest,    \* outcome of the last categorize_ticketmaster_event call
  ingest,         \* the categorize_ticketmaster_event requests in flight
  enc             \* inputs and results of the encoders run on their own

vars == << userprofiles, clickcounts, events, clock, pc, request,
           user_profile, click_counts, rsvp_counts, user_vector, fetched,
           similar, response, raised, last_ingest, ingest, enc >>

storage == << userprofiles, clickcounts, events >>

locals == << user_profile, click_counts, rsvp_counts, user_vector, fetched,
             similar >>

\* the empty dict
EmptyDict == [k \in {} |-> 0]

\* no response yet
NoResponse == [status_code |-> 0, recommended_events |-> <<>>]

----------------------------------------------------------------------------
(* recommend_events, src/test-recomm.py lines 44-84 *)

\* the request arguments the model draws from: two well-formed ids (only
\* the first has a profile) and a string ObjectId() rejects
UserIds == { "652f00000000000000000001", "652f00000000000000000002",
             "not-an-object-id" }

\* bson.ObjectId(user_id) accepts the string
IsObjectId(user_id) == user_id # "not-an-object-id"

\* faulty variant: the id is compared as a string, which matches no document
find_userprofiles_str(user_id) ==
  SelectSeq(userprofiles, LAMBDA d : FALSE)

\* db.userprofiles.find_one({"_id": ObjectId(user_id)}): the matches in order
find_userprofiles(user_id) ==
  SelectSeq(userprofiles, LAMBDA d : Get(d, "_id", "") = user_id)

\* db.clickcounts.find_one({"userId": ...}): the matches in order
find_clickcounts(userId) ==
  SelectSeq(clickcounts, LAMBDA d : Get(d, "userId", "") = userId)

\* db.events.find({"rsvps": ...}).to_list(length=None)
find_rsvps(address) ==
  SelectSeq(events, LAMBDA d : In(address, Get(d, "rsvps", <<>>)))

\* faulty variant: the default engagement signal carries a count
DefaultClickCounts_counted ==
  [category |-> "", categoryCount |-> 0,
   subCategories |-> << [category |-> "Others", categoryCount |-> 1] >>]

\* line 54: the engagement signal used when no record is found
DefaultClickCounts ==
  [category |-> "", categoryCount |-> 0, subCategories |-> <<>>]

\* lines 83-84: `except Exception` catches whatever the try block raised,
\* the HTTPException of line 50 included (HTTPException is an Exception),
\* and raises HTTPException(status_code=500)
except_Exception(e) == [status_code |-> 500, recommended_events |-> <<>>]

\* line 82
Success(recommendations) ==
  [status_code |-> 200, recommended_events |-> recommendations]

\* The request arrives; line 48 evaluates ObjectId(user_id) before the
\* first await.
Request(user_id, top_n) ==
  /\ pc = "idle"
  /\ request' = [user_id |-> user_id, top_n |-> top_n]
  /\ IF IsObjectId(user_id)
       THEN /\ pc' = "find_user"
            /\ raised' = ""
            /\ response' = NoResponse
       ELSE /\ pc' = "done"
            /\ raised' = "InvalidId"
            /\ response' = except_Exception("InvalidId")
  /\ UNCHANGED << storage, clock, locals, last_ingest, ingest,
                  enc >>

\* lines 48-50
FindUserProfile ==
  /\ pc = "find_user"
  /\ LET found == find_userprofiles(request.user_id)
     IN  IF Len(found) = 0
           THEN /\ raised' = "HTTPException(404)"
                /\ response' = except_Exception("HTTPException(404)")
                /\ pc' = "done"
                /\ UNCHANGED user_profile
           ELSE /\ user_profile' = Head(found)
                /\ pc' = "find_clicks"
                /\ UNCHANGED << raised, response >>
  /\ UNCHANGED << storage, clock, request, click_counts, rsvp_counts,
                  user_vector, fetched, similar, last_ingest, ingest,
                  enc >>

\* faulty variant: the default engagement signal is stored for the user
FindClickCounts_upsert ==
  /\ pc = "find_clicks"
  /\ LET userId == user_profile["emailAddresses"]
         found  == find_clickcounts(userId)
     IN  IF Len(found) = 0
           THEN /\ click_counts' = DefaultClickCounts
                /\ clickcounts' =
                     Append(clickcounts,
                            [userId |-> userId, category |-> "",
                             categoryCount |-> 0, subCategories |-> <<>>])
           ELSE /\ click_counts' = Head(found)
                /\ UNCHANGED clickcounts
  /\ pc' = "find_rsvps"
  /\ UNCHANGED << userprofiles, events, clock, request, user_profile,
                  rsvp_counts, user_vector, fetched, similar, response,
                  raised, last_ingest, ingest,
                  enc >>

\* lines 52-54
FindClickCounts ==
  /\ pc = "find_clicks"
  /\ LET found == find_clickcounts(user_profile["emailAddresses"])
     IN  click_counts' = IF Len(found) = 0 THEN DefaultClickCounts
                                           ELSE Head(found)
  /\ pc' = "find_rsvps"
  /\ UNCHANGED << storage, clock, request, user_profile, rsvp_counts,
                  user_vector, fetched, similar, response, raised,
                  last_ingest, ingest,
                  enc >>

\* lines 56-58
FindRsvps ==
  /\ pc = "find_rsvps"
  /\ rsvp_counts' = find_rsvps(user_profile["emailAddresses"])
  /\ user_vector' = create_user_vector(user_profile, click_counts,
                                       rsvp_counts')
  /\ pc' = "find_events"
  /\ UNCHANGED << storage, clock, request, user_profile, click_counts,
                  fetched, similar, response, raised, last_ingest, ingest,
                  enc >>

\* lines 61-82
FindEvents ==
  /\ pc = "find_events"
  /\ fetched' = events
  /\ LET annoy_index == BuildIndex(events)
     IN  \E r \in get_nns_by_vector(annoy_index, user_vector, request.top_n) :
           /\ similar' = r
           /\ response' = Success(
                [i \in 1..Len(r) |->
                   Recommendation(events, r, user_vector, annoy_index, i)])
  /\ pc' = "done"
  /\ UNCHANGED << storage, clock, request, user_profile, click_counts,
                  rsvp_counts, user_vector, raised, last_ingest, ingest,
                  enc >>

\* the response has been delivered; the request's locals are dropped
Return ==
  /\ pc = "done"
  /\ pc' = "idle"
  /\ request' = [user_id |-> "", top_n |-> 0]
  /\ user_profile' = EmptyDict
  /\ click_counts' = EmptyDict
  /\ rsvp_counts' = <<>>
  /\ user_vector' = <<>>
  /\ fetched' = <<>>
  /\ similar' = <<>>
  /\ response' = NoResponse
  /\ raised' = ""
  /\ UNCHANGED << storage, clock, last_ingest, ingest,
                  enc >>

----------------------------------------------------------------------------
(* Ingestion, src/main_new-1.py.  A Ticketmaster event is a dict with the   *)
(* optional keys name, id, venues (for _embedded.venues) and localDate (for *)
(* dates.start.localDate).  Of the document process_ticketmaster_event      *)
(* builds, the fields no modelled code reads back are left out              *)
(* (organizerId, organizerEmail, description, imageUrl, endDate, startTime, *)
(* endTime, registrationFee, createdAt, updatedAt).                         *)

\* what categorize_with_gpt can return (lines 30-177, and the keyword
\* fallback of lines 179-225): a main category of the catalogue (it is
\* validated, line 125) and whatever subcategory the reply carried (it is
\* not validated), or a pair of the fallback tables
GptResults ==
  { [main_category |-> "Music",
     sub_category  |-> "Live Performances & Concerts"],
    [main_category |-> "Sports", sub_category |-> "Pickleball"] }

\* datetime.fromisoformat(localDate) of line 284
ParsedDate(d) == [kind |-> "date", t |-> d]

\* datetime.now() of line 298
Now(t) == [kind |-> "now", t |-> t]

\* lines 283-304: does the date block fall back to datetime.now()
DateError(event) == "localDate" \notin DOMAIN event

\* lines 265-323; None (<<>>) when the outer try catches an exception
process_ticketmaster_event(event, enhanced_data, now) ==
  LET venues == Get(event, "venues", << EmptyDict >>)
  IN  IF Len(venues) = 0
        THEN None                       \* [0] raises IndexError, line 271
        ELSE LET location == Get(venues[1], "location", EmptyDict)
             IN  Some(
               [title           |-> Get(event, "name", ""),
                venue           |-> Get(venues[1], "name",
                                        "Venue Not Specified"),
                rsvps           |-> <<>>,
                ticketmaster_id |-> Get(event, "id", None),
                latitude        |-> Get(location, "latitude", None),
                longitude       |-> Get(location, "longitude", None),
                startDate       |-> IF DateError(event) THEN Now(now)
                                    ELSE ParsedDate(event["localDate"]),
                main_category   |-> enhanced_data["main_category"],
                sub_category    |-> enhanced_data["sub_category"]])

\* lines 227-263, on the collection as it is when the check runs
is_duplicate_event(coll, event_data) ==
  LET ticketmaster_id == Get(event_data, "id", None)
      title      == Get(event_data, "title", "")
      start_date == Get(event_data, "startDate", Now(0))
      venue      == Get(event_data, "venue", "")
      by_id == /\ Truthy(ticketmaster_id)
               /\ \E i \in 1..Len(coll) :
                     Get(coll[i], "ticketmaster_id", None) = ticketmaster_id
      by_title == /\ title # "" /\ venue # ""
                  /\ \E i \in 1..Len(coll) :
                        /\ Get(coll[i], "title", "") = title
                        /\ Get(coll[i], "startDate", Now(0)) = start_date
                        /\ Get(coll[i], "venue", "") = venue
  IN  by_id \/ by_title

\* lines 325-364, one call run to completion
categorize_ticketmaster_event(event, enhanced_data) ==
  /\ DateError(event) => clock < MaxClock
  /\ clock' = IF DateError(event) THEN clock + 1 ELSE clock
  /\ LET processed_event ==
           process_ticketmaster_event(event, enhanced_data, clock + 1)
     IN  IF processed_event = None
           THEN /\ last_ingest' = "failed"
                /\ UNCHANGED events
           ELSE IF is_duplicate_event(events, processed_event[1])
             THEN /\ last_ingest' = "duplicate"
                  /\ UNCHANGED events
             ELSE /\ Len(events) < MaxEvents
                  /\ events' = Append(events, processed_event[1])
                  /\ last_ingest' = "saved"
  /\ UNCHANGED << userprofiles, clickcounts, pc, request, locals, response,
                  raised, ingest, enc >>

----------------------------------------------------------------------------
(* categorize_ticketmaster_event served concurrently: each request is a     *)
(* coroutine of the one event loop and gives way at its awaits, so other    *)
(* requests run between its duplicate check and its insert.                 *)

\* the requests in flight
Procs == 1..MaxRequests

\* a request slot with no request in it
IdleIngest == [pc |-> "idle", processed_event |-> EmptyDict]

\* lines 328-336: await process_ticketmaster_event(event_data)
IngestProcess(p, event, enhanced_data) ==
  /\ ingest[p].pc = "idle"
  /\ DateError(event) => clock < MaxClock
  /\ clock' = IF DateError(event) THEN clock + 1 ELSE clock
  /\ LET processed_event ==
           process_ticketmaster_event(event, enhanced_data, clock + 1)
     IN  IF processed_event = None
           THEN /\ last_ingest' = "failed"
                /\ UNCHANGED ingest
           ELSE /\ ingest' = [ingest EXCEPT ![p] =
                                [pc |-> "check",
                                 processed_event |-> processed_event[1]]]
                /\ UNCHANGED last_ingest
  /\ UNCHANGED << storage, pc, request, locals, response, raised, enc >>

\* lines 338-342: await is_duplicate_event(db, processed_event)
IngestCheck(p) ==
  /\ ingest[p].pc = "check"
  /\ IF is_duplicate_event(events, ingest[p].processed_event)
       THEN /\ ingest' = [ingest EXCEPT ![p] = IdleIngest]
            /\ last_ingest' = "duplicate"
       ELSE /\ ingest' = [ingest EXCEPT ![p].pc = "insert"]
            /\ UNCHANGED last_ingest
  /\ UNCHANGED << storage, clock, pc, request, locals, response, raised,
                  enc >>

\* lines 344-356: await db.events.insert_one(processed_event)
IngestInsert(p) ==
  /\ ingest[p].pc = "insert"
  /\ Len(events) < MaxEvents
  /\ events' = Append(events, ingest[p].processed_event)
  /\ ingest' = [ingest EXCEPT ![p] = IdleIngest]
  /\ last_ingest' = "saved"
  /\ UNCHANGED << userprofiles, clickcounts, clock, pc, request, locals,
                  response, raised, enc >>

\* the Ticketmaster events the model draws from: a complete event; one
\* with the same id and neither name nor date nor venue name nor location;
\* one whose venue list is empty
TicketmasterEvents ==
  { [name |-> "Concert", id |-> Some("tm1"), localDate |-> 1,
     venues |-> << [name |-> "Lane Stadium",
                    location |-> [latitude |-> Some(37),
                                  longitude |-> Some(80)]] >>],
    [id |-> Some("tm1"), venues |-> << EmptyDict >>],
    [name |-> "Concert", id |-> Some("tm2"), localDate |-> 1,
     venues |-> <<>>] }

----------------------------------------------------------------------------
(* The encoders run on their own: create_user_vector on inputs that grow    *)
(* one item at a time, create_event_vector on one event.  enc.before is the *)
(* user vector before the last change of the inputs, enc.vector after it,   *)
(* enc.op says what the change was.                                         *)

\* labels the inputs draw from: a category, a subcategory, and a label that
\* is not in the feature space
Labels == { "Music", "Live Performances & Concerts", "Pickleball" }

\* entries of click_counts["subCategories"], with and without their keys
ClickInfos ==
  { [category |-> l, categoryCount |-> c] :
      l \in { "Live Performances & Concerts", "Pickleball" },
      c \in 0..(MaxCount - 1) }
    \cup { [categoryCount |-> 1], [category |-> "Music"] }

\* events as the encoders see them: categories present or not, in the
\* feature space or not, distinct or the same label
CategorizedEvents ==
  { [main_category |-> m, sub_category |-> c] :
      m \in { "Music", "Pickleball" }, c \in Labels }
    \cup { [main_category |-> "Music"], EmptyDict }

\* the events create_event_vector is run on: without categories, with
\* categories in and out of the feature space, and with a location under
\* the keys it reads
LocatedEvents ==
  { EmptyDict,
    [main_category |-> "Music",
     sub_category |-> "Live Performances & Concerts"],
    [main_category |-> "Pickleball", sub_category |-> "Pickleball"],
    [main_category |-> "Music", Latitude |-> 37, Longitude |-> 80] }

NoOp == [kind |-> "none", main |-> "", sub |-> "", n |-> 0]

EncStart ==
  [profile  |-> [_id |-> "652f00000000000000000001",
                 emailAddresses |-> "hokie@vt.edu"],
   clicks   |-> DefaultClickCounts,
   rsvps    |-> <<>>,
   event    |-> EmptyDict,
   before   |-> create_user_vector(EmptyDict, DefaultClickCounts, <<>>),
   vector   |-> create_user_vector(EmptyDict, DefaultClickCounts, <<>>),
   evector  |-> create_event_vector(EmptyDict),
   op       |-> NoOp]

\* number of items in the inputs of create_user_vector
EncSize ==
  Len(Get(enc.profile, "interests", <<>>))
    + Len(enc.clicks["subCategories"]) + Len(enc.rsvps)

\* the inputs change to (profile, clicks, rsvps) and the vector is rebuilt
EncUpdate(profile, clicks, rsvps, op) ==
  /\ enc' = [enc EXCEPT !.profile = profile, !.clicks = clicks,
                        !.rsvps = rsvps, !.op = op,
                        !.before = enc.vector,
                        !.vector = create_user_vector(profile, clicks, rsvps)]
  /\ UNCHANGED << storage, clock, pc, request, locals, response, raised,
                  last_ingest, ingest >>

\* one more interest on the profile
EncAddInterest(label) ==
  /\ EncSize < MaxList
  /\ EncUpdate([k \in DOMAIN enc.profile \cup { "interests" } |->
                  IF k = "interests"
                    THEN Append(Get(enc.profile, "interests", <<>>), label)
                    ELSE enc.profile[k]],
               enc.clicks, enc.rsvps,
               [kind |-> "interest", main |-> label, sub |-> "", n |-> 0])

\* one more entry in the engagement record
EncAddClick(info) ==
  /\ EncSize < MaxList
  /\ EncUpdate(enc.profile,
               [enc.clicks EXCEPT !["subCategories"] = Append(@, info)],
               enc.rsvps,
               [kind |-> "click", main |-> Get(info, "category", ""),
                sub |-> "", n |-> Get(info, "categoryCount", 0)])

\* the count of the i-th entry of the engagement record grows by n
EncRaiseCount(i, n) ==
  /\ i \in 1..Len(enc.clicks["subCategories"])
  /\ LET info == enc.clicks["subCategories"][i]
     IN  /\ "categoryCount" \in DOMAIN info
         /\ info["categoryCount"] + n <= MaxCount
         /\ EncUpdate(enc.profile,
                      [enc.clicks EXCEPT
                         !["subCategories"][i]["categoryCount"] = @ + n],
                      enc.rsvps,
                      [kind |-> "raise", main |-> Get(info, "category", ""),
                       sub |-> "", n |-> n])

\* one more RSVP'd event
EncAddRsvp(event) ==
  /\ EncSize < MaxList
  /\ EncUpdate(enc.profile, enc.clicks, Append(enc.rsvps, event),
               [kind |-> "rsvp", main |-> Get(event, "main_category", ""),
                sub |-> Get(event, "sub_category", ""), n |-> 0])

\* an event is encoded
EncEvent(event) ==
  /\ enc' = [enc EXCEPT !.event = event,
                        !.evector = create_event_vector(event),
                        !.op = [kind |-> "event",
                                main |-> Get(event, "main_category", ""),
                                sub |-> Get(event, "sub_category", ""),
                                n |-> 0]]
  /\ UNCHANGED << storage, clock, pc, request, locals, response, raised,
                  last_ingest, ingest >>

----------------------------------------------------------------------------
(* Initial state: the collections as other services left them *)

\* the contact address of the one user
Address == "hokie@vt.edu"

\* the user profile documents the model draws from; every one carries
\* the keys recommend_events subscripts (_id, emailAddresses), interests
\* is optional (line 90)
Profiles ==
  { [_id |-> "652f00000000000000000001", emailAddresses |-> Address,
     interests |-> << "Music", "Pickleball" >>],
    [_id |-> "652f00000000000000000001", emailAddresses |-> Address],
    [_id |-> "652f00000000000000000001", emailAddresses |-> Address,
     interests |-> << "Live Performances & Concerts" >>] }

\* the click-count documents the model draws from
ClickDocs ==
  { [userId |-> Address, category |-> "Music", categoryCount |-> MaxCount,
     subCategories |->
       << [category |-> "Live Performances & Concerts",
           categoryCount |-> MaxCount] >>] }

\* events created by hand: one categorized and with an RSVP of the user,
\* one not categorized yet; every one carries the key recommend_events
\* subscripts (title)
SeedEvents ==
  { [title |-> "Game Night", venue |-> "Squires",
     startDate |-> ParsedDate(1), main_category |-> "Sports",
     sub_category |-> "Team Sports", rsvps |-> << Address >>],
    [title |-> "Open Mic", venue |-> "Squires",
     startDate |-> ParsedDate(2), rsvps |-> <<>>] }

Init ==
  /\ userprofiles \in { << p >> : p \in Profiles }
  /\ clickcounts \in { <<>> } \cup { << c >> : c \in ClickDocs }
  /\ events \in { <<>> } \cup { << e >> : e \in SeedEvents }
  /\ clock = 0
  /\ pc = "idle"
  /\ request = [user_id |-> "", top_n |-> 0]
  /\ user_profile = EmptyDict
  /\ click_counts = EmptyDict
  /\ rsvp_counts = <<>>
  /\ user_vector = <<>>
  /\ fetched = <<>>
  /\ similar = <<>>
  /\ response = NoResponse
  /\ raised = ""
  /\ last_ingest = "none"
  /\ ingest = [p \in Procs |-> IdleIngest]
  /\ enc = EncStart

Next ==
  \/ \E user_id \in UserIds, top_n \in 0..MaxTopN : Request(user_id, top_n)
  \/ FindUserProfile
  \/ FindClickCounts
  \/ FindRsvps
  \/ FindEvents
  \/ Return
  \/ \E event \in TicketmasterEvents, enhanced_data \in GptResults :
        categorize_ticketmaster_event(event, enhanced_data)

Spec == Init /\ [][Next]_vars

\* the encoders on their own, over collections that stay as they are
InitEnc ==
  /\ Init
  /\ userprofiles = << CHOOSE p \in Profiles : "interests" \notin DOMAIN p >>
  /\ clickcounts = <<>>
  /\ events = <<>>

NextEnc ==
  \/ \E label \in Labels : EncAddInterest(label)
  \/ \E info \in ClickInfos : EncAddClick(info)
  \/ \E i \in 1..MaxList, n \in 1..MaxCount : EncRaiseCount(i, n)
  \/ \E event \in CategorizedEvents : EncAddRsvp(event)
  \/ \E event \in LocatedEvents : EncEvent(event)

SpecEnc == InitEnc /\ [][NextEnc]_vars

\* concurrent ingestion into an empty events collection
InitConc ==
  /\ Init
  /\ userprofiles = << CHOOSE p \in Profiles : "interests" \notin DOMAIN p >>
  /\ clickcounts = <<>>
  /\ events = <<>>

NextConc ==
  \E p \in Procs :
    \/ \E event \in TicketmasterEvents, enhanced_data \in GptResults :
          IngestProcess(p, event, enhanced_data)
    \/ IngestCheck(p)
    \/ IngestInsert(p)

SpecConc == InitConc /\ [][NextConc]_vars

----------------------------------------------------------------------------
(* Properties *)

\* a profile with this id is stored
UserExists(user_id) ==
  \E i \in 1..Len(userprofiles) : userprofiles[i]["_id"] = user_id

\* index of a label of the feature space
Ix(label) == index(feature_space, label)

\* C1: when no profile exists for the user_id, the caller receives the
\* NotFound outcome (status 404), not the generic internal failure (500).
C1_NotFoundIs404 ==
  (pc = "done" /\ raised = "HTTPException(404)")
    => response.status_code = 404

\* C2: for every event record, the two trailing dimensions of its event
\* vector are its stored latitude and longitude, and are 0, 0 only when the
\* event has none.
C2_EventVectorCarriesLocation ==
  \A i \in 1..Len(events) :
    LET e   == events[i]
        v   == create_event_vector(e)
        lat == Get(e, "latitude", None)
        lon == Get(e, "longitude", None)
    IN  IF lat # None /\ lon # None
          THEN v[Dim + 1] = lat[1] /\ v[Dim + 2] = lon[1]
          ELSE v[Dim + 1] = 0 /\ v[Dim + 2] = 0

\* C3: when the user exists and the event collection is empty, the request
\* succeeds with an empty list of recommendations.
C3_EmptyCollectionSucceeds ==
  (pc = "done" /\ UserExists(request.user_id) /\ fetched = <<>>)
    => (raised = "" /\ response = Success(<<>>))

C3_Witness ==
  /\ pc = "done" /\ UserExists(request.user_id) /\ fetched = <<>>
  /\ user_vector # <<>> /\ request.top_n > 0 /\ response.status_code = 200

\* C4: the returned list has at most top_n entries, has exactly one entry
\* per event when top_n exceeds the number of events, is ordered by
\* non-decreasing distance, and each entry carries the title of the event
\* whose vector was added to the index under the returned id.
C4_RankedList ==
  (pc = "done" /\ response.status_code = 200) =>
    LET recs == response.recommended_events
    IN  /\ Len(recs) <= request.top_n
        /\ request.top_n > Len(fetched) =>
              /\ Len(recs) = Len(fetched)
              /\ \A idx \in 0..(Len(fetched) - 1) :
                    Cardinality({ i \in 1..Len(similar) : similar[i] = idx })
                      = 1
        /\ \A i \in 1..(Len(recs) - 1) :
              DistLeq(recs[i].distance, recs[i + 1].distance)
        /\ Len(similar) = Len(recs)
        /\ \A i \in 1..Len(recs) :
              /\ similar[i] \in 0..(Len(fetched) - 1)
              /\ recs[i].event = fetched[similar[i] + 1]["title"]
              /\ recs[i].distance =
                   angular_distance(user_vector,
                     create_event_vector(fetched[similar[i] + 1]))

C4_Witness ==
  /\ pc = "done" /\ response.status_code = 200
  /\ Len(fetched) = 2 /\ Len(response.recommended_events) = 2
  /\ similar = << 1, 0 >>
  /\ fetched[1]["title"] # fetched[2]["title"]
  /\ response.recommended_events[1].distance
       # response.recommended_events[2].distance

\* C5 as stated: one more RSVP'd event whose main_category and sub_category
\* are both in the feature space raises the user vector by exactly 2 in the
\* main_category dimension and exactly 2 in the sub_category dimension, and
\* changes no other dimension.
C5_RsvpAddsTwoEach ==
  (enc.op.kind = "rsvp" /\ In(enc.op.main, feature_space)
                        /\ In(enc.op.sub, feature_space)) =>
    /\ enc.vector[Ix(enc.op.main)] = enc.before[Ix(enc.op.main)] + 2
    /\ enc.vector[Ix(enc.op.sub)] = enc.before[Ix(enc.op.sub)] + 2
    /\ \A d \in 1..Len(enc.vector) :
          d \notin { Ix(enc.op.main), Ix(enc.op.sub) }
            => enc.vector[d] = enc.before[d]

\* C5 as amended: the RSVP adds 2 for the main_category and 2 for the
\* sub_category; two different labels gain 2 each, one label that is both
\* gains 4, and no other dimension changes.
C5_RsvpAddsTwoPerField ==
  (enc.op.kind = "rsvp" /\ In(enc.op.main, feature_space)
                        /\ In(enc.op.sub, feature_space)) =>
    /\ Len(enc.vector) = Len(enc.before)
    /\ \A d \in 1..Len(enc.vector) :
          enc.vector[d] = enc.before[d]
                            + (IF d = Ix(enc.op.main) THEN 2 ELSE 0)
                            + (IF d = Ix(enc.op.sub) THEN 2 ELSE 0)

C5_Witness ==
  /\ enc.op.kind = "rsvp"
  /\ enc.op.main = "Music" /\ enc.op.sub = "Live Performances & Concerts"
  /\ Len(enc.rsvps) = 2

\* C6: when the count recorded for a subcategory of the feature space grows
\* by n, that dimension of the user vector grows by exactly n and no other
\* dimension changes, whether or not the label is also an interest.
C6_CountIsAdditive ==
  (enc.op.kind = "raise" /\ In(enc.op.main, feature_space)) =>
    /\ Len(enc.vector) = Len(enc.before)
    /\ \A d \in 1..Len(enc.vector) :
          enc.vector[d] = enc.before[d]
                            + (IF d = Ix(enc.op.main) THEN enc.op.n ELSE 0)

C6_Witness ==
  /\ enc.op.kind = "raise" /\ In(enc.op.main, feature_space)
  /\ In(enc.op.main, Get(enc.profile, "interests", <<>>))
  /\ enc.op.n > 0

\* C7: with no engagement and no RSVPs, every label of the feature space
\* that occurs among the interests, once or more, has value exactly 1.
C7_InterestsAreMembership ==
  (enc.clicks["subCategories"] = <<>> /\ enc.rsvps = <<>>) =>
    \A d \in 1..Dim :
      enc.vector[d] =
        IF In(feature_space[d], Get(enc.profile, "interests", <<>>))
          THEN 1 ELSE 0

C7_Witness ==
  /\ enc.clicks["subCategories"] = <<>> /\ enc.rsvps = <<>>
  /\ Get(enc.profile, "interests", <<>>) = << "Music", "Music" >>

\* labels of the user inputs / of the event that are in the feature space
UserLabels ==
  { Get(enc.profile, "interests", <<>>)[i] :
      i \in 1..Len(Get(enc.profile, "interests", <<>>)) }
    \cup { Get(enc.clicks["subCategories"][i], "category", "") :
             i \in 1..Len(enc.clicks["subCategories"]) }
    \cup { Get(enc.rsvps[i], "main_category", "") : i \in 1..Len(enc.rsvps) }
    \cup { Get(enc.rsvps[i], "sub_category", "") : i \in 1..Len(enc.rsvps) }

EventLabels ==
  { Get(enc.event, "main_category", ""), Get(enc.event, "sub_category", "") }

\* C8: both encoders return a vector of length len(feature_space) + 2 for
\* any input; when no label of the input is in the feature space the first
\* len(feature_space) dimensions are all zero.
C8_VectorShape ==
  /\ Len(enc.vector) = Dim + 2
  /\ Len(enc.evector) = Dim + 2
  /\ (\A l \in UserLabels : ~ In(l, feature_space))
        => \A d \in 1..Dim : enc.vector[d] = 0
  /\ (\A l \in EventLabels : ~ In(l, feature_space))
        => \A d \in 1..Dim : enc.evector[d] = 0

C8_Witness ==
  /\ enc.op.kind = "event"
  /\ "Pickleball" \in UserLabels
  /\ \A l \in UserLabels : ~ In(l, feature_space)
  /\ Len(enc.rsvps) > 0
  /\ Get(enc.event, "main_category", "") = "Pickleball"

\* C9: when the user exists but has no click-count record, the request does
\* not fail, and the user vector is the one built from interests and RSVPs
\* alone.
C9_MissingEngagement ==
  (UserExists(request.user_id)
     /\ find_clickcounts(Address) = <<>>) =>
    /\ pc \in { "find_events", "done" } =>
          user_vector =
            UserLocation(
              EncodeRsvps(
                EncodeInterests(zeros(Dim),
                                Get(user_profile, "interests", <<>>), 1),
                rsvp_counts, 1))
    /\ pc = "done" => (raised = "" /\ response.status_code = 200)

C9_Witness ==
  /\ pc = "done" /\ UserExists(request.user_id)
  /\ find_clickcounts(Address) = <<>>
  /\ Len(rsvp_counts) > 0
  /\ Len(Get(user_profile, "interests", <<>>)) > 0

\* C10: no step of recommend_events writes to storage: the user-profile,
\* click-count and event collections are after the step what they were
\* before it, whatever the outcome.
C10_NoWrites ==
  [][pc' # pc => (/\ userprofiles' = userprofiles
                  /\ clickcounts' = clickcounts
                  /\ events' = events)]_vars

C10_Witness ==
  /\ pc = "done" /\ response.status_code = 200
  /\ Len(fetched) > 0 /\ find_clickcounts(Address) = <<>>

\* C11: every fault raised inside recommend_events other than
\* user-not-found reaches the caller as the generic internal failure (500),
\* and user-not-found is the one outcome the caller can tell from it (404).
C11_OnlyNotFoundDistinguishable ==
  pc = "done" =>
    /\ raised = "" => response.status_code = 200
    /\ raised = "HTTPException(404)" => response.status_code = 404
    /\ raised \notin { "", "HTTPException(404)" }
          => response.status_code = 500

\* the stored events that carry the (non-empty) Ticketmaster id tm
WithTicketmasterId(coll, tm) ==
  { i \in 1..Len(coll) : Get(coll[i], "ticketmaster_id", None) = tm }

\* C12: with calls run one after the other, the events collection never
\* holds two events with the same non-empty ticketmaster_id, and a call
\* whose event has the ticketmaster_id of a stored event inserts nothing.
C12_TicketmasterIdUnique ==
  [][/\ \A i, j \in 1..Len(events') :
          (i # j /\ Truthy(Get(events'[i], "ticketmaster_id", None)))
            => Get(events'[i], "ticketmaster_id", None)
                 # Get(events'[j], "ticketmaster_id", None)
     /\ Len(events') > Len(events) =>
          LET tm == Get(events'[Len(events')], "ticketmaster_id", None)
          IN  Truthy(tm) => WithTicketmasterId(events, tm) = {}]_vars

\* C13: under any interleaving of concurrent categorize_ticketmaster_event
\* requests, the events collection never holds two events with the same
\* title, startDate and venue.
C13_NoTwinEvents ==
  \A i, j \in 1..Len(events) :
    i # j =>
      ~ /\ Get(events[i], "title", "") = Get(events[j], "title", "")
        /\ Get(events[i], "startDate", Now(0))
             = Get(events[j], "startDate", Now(0))
        /\ Get(events[i], "venue", "") = Get(events[j], "venue", "")

====
